---- MODULE Spec2Model ----
(***************************************************************************)
(* A model of the realtime chat backend: the socket.io gateway             *)
(* (EventsGateway), the message and conversation services and the part of  *)
(* the Prisma store they use.  A handler of the gateway is a task: it      *)
(* starts with the synchronous prefix of the handler and is resumed once   *)
(* per awaited Store call, so that handlers interleave exactly at the      *)
(* Store calls.  client.join / client.leave act on the in-memory adapter   *)
(* and are taken together with the code that follows them.                 *)
(***************************************************************************)
EXTENDS Integers, Sequences, FiniteSets, TLC

\* ------------------------------------------------------------------ universe

Users == {"u1", "u2"}
NoUser == "none"
Sockets == {"s1", "s2", "s3", "s4", "s5", "s6"}
\* client.handshake.auth.token of each connection and the sub of its payload: two
\* connections of u1 and one of u2 with a valid token, one connection without a
\* token, one with a token of a wrong signature, one with an expired token
Handshake ==
  [s1 |-> [token |-> "valid", sub |-> "u1"],
   s2 |-> [token |-> "valid", sub |-> "u1"],
   s3 |-> [token |-> "valid", sub |-> "u2"],
   s4 |-> [token |-> "missing", sub |-> NoUser],
   s5 |-> [token |-> "forged", sub |-> "u1"],
   s6 |-> [token |-> "expired", sub |-> "u2"]]

\* A faulty variant of the verification: the payload is decoded without the
\* signature and the expiry being verified.
DecodeToken(s) == Handshake[s].sub

\* WsJwtGuard.validateToken: the sub of the verified payload; NoUser stands for the
\* Error thrown for a missing token and by verify for an invalid or expired one.
ValidateToken(s) == IF Handshake[s].token = "valid" THEN Handshake[s].sub ELSE NoUser

\* client.user?.sub of each connection, as SocketAuthMiddleware attaches it
Principal == [s \in Sockets |-> ValidateToken(s)]

MaxConvs == 2
MaxMsgs == 2
MaxTasks == 2
MaxLen == 3
ConvIds == 1..MaxConvs
MsgIds == 1..MaxMsgs
TaskIds == 1..MaxTasks
NoConv == 0
NoMsg == 0

VARIABLES
  isOnline,       \* Store: User.isOnline
  conversations,  \* Store: conversation id -> [participants, lastMessageId]
  messages,       \* Store: message id -> [authorId, conversationId, content]
  receipts,       \* Store: rows of MessageReadReceipt per <<messageId, userId>>
  socketToUser,   \* gateway: Map socketId -> userId
  userRooms,      \* gateway: Map userId -> Set of conversationIds
  typingUsers,    \* gateway: Map conversationId -> Set of userIds
  rooms,          \* socket.io adapter: the rooms each socket is in
  conn,           \* transport state of each connection: new, open, closed
  tasks,          \* handler invocations suspended on a Store call
  emitted,        \* the events emitted by the last step
  log             \* what the last step did: the handler that ended and how

store == <<isOnline, conversations, messages, receipts>>
registry == <<socketToUser, userRooms, typingUsers>>
vars == <<isOnline, conversations, messages, receipts, socketToUser, userRooms,
          typingUsers, rooms, conn, tasks, emitted, log>>

\* ------------------------------------------------------------------ maps

EmptyMap == [x \in {} |-> 0]
Has(m, k) == k \in DOMAIN m
Put(m, k, v) == [x \in DOMAIN m \cup {k} |-> IF x = k THEN v ELSE m[x]]
Del(m, k) == [x \in DOMAIN m \ {k} |-> m[x]]
Get(m, k, dflt) == IF k \in DOMAIN m THEN m[k] ELSE dflt

\* ------------------------------------------------------------------ events

Ev(kind, to, conv, user, msgs, flag) ==
  [kind |-> kind, to |-> to, conv |-> conv, user |-> user, msgs |-> msgs, flag |-> flag]

\* A faulty variant of the resolution: every socket id the adapter has in the room,
\* whether the socket is still connected or not.
InRoomOfAdapter(c) == {s \in Sockets : c \in rooms[s]}

\* this.server.to(room): the live sockets the adapter has in the room
InRoom(c) == {s \in Sockets : conn[s] = "open" /\ c \in rooms[s]}
\* A faulty variant of the broadcast: this.server.to(room), the emitting socket
\* included.
InRoomWithCaller(c, s) == InRoom(c)

\* client.to(room): the room without the emitting socket
InRoomExcept(c, s) == InRoom(c) \ {s}

\* A faulty variant of the error report: this.server.emit instead of client.emit.
ErrorEvToAll(s, conv) ==
  Ev("error", {x \in Sockets : conn[x] = "open"}, conv, NoUser, {}, FALSE)

\* client.emit('error', errorResponse): to the client alone
ErrorEv(s, conv) == Ev("error", {s}, conv, NoUser, {}, FALSE)

\* what the last step did; result holds what an HTTP call returned or was given
NoLog == [action |-> "none", sock |-> "none", outcome |-> "none", conv |-> NoConv,
          msg |-> NoMsg, created |-> FALSE, result |-> {}]
Log(action, sock, outcome, conv, msg, created) ==
  [action |-> action, sock |-> sock, outcome |-> outcome, conv |-> conv,
   msg |-> msg, created |-> created, result |-> {}]

\* ------------------------------------------------------------------ tasks

Idle == [kind |-> "idle", pc |-> "none", sock |-> "none", user |-> NoUser,
         conv |-> NoConv, rcpt |-> NoUser, msg |-> NoMsg, ids |-> {},
         created |-> FALSE, content |-> <<>>]
Task(kind, pc, sock, user, conv, rcpt) ==
  [kind |-> kind, pc |-> pc, sock |-> sock, user |-> user, conv |-> conv,
   rcpt |-> rcpt, msg |-> NoMsg, ids |-> {}, created |-> FALSE, content |-> <<>>]

FreeTasks == {t \in TaskIds : tasks[t].kind = "idle"}
Quiescent == FreeTasks = TaskIds
\* the slot a new handler takes: the lowest free one
Slot == CHOOSE t \in FreeTasks : \A x \in FreeTasks : t <= x
At(t, kind, pc) == tasks[t].kind = kind /\ tasks[t].pc = pc

\* ------------------------------------------------------------------ Store queries

\* A faulty variant of the query: findMany without the participants filter.
AllConversations(u) == DOMAIN conversations

\* conversation.findMany({ where: { participants: { some: { userId } } } })
ConversationsOf(u) ==
  {c \in DOMAIN conversations : u \in conversations[c].participants}

\* conversation.findFirst({ where: { id, participants: { some: { userId } } } })
IsParticipant(c, u) == c \in DOMAIN conversations /\ u \in conversations[c].participants

\* ------------------------------------------------------------------ initial state

\* The process starts with empty registries (the Map fields of EventsGateway) and
\* no connection; the Store holds the registered users, all offline
\* (isOnline DEFAULT false), and nothing else.
Init ==
  /\ isOnline = [u \in Users |-> FALSE]
  /\ conversations = EmptyMap
  /\ messages = EmptyMap
  /\ receipts = [k \in MsgIds \X Users |-> 0]
  /\ socketToUser = EmptyMap
  /\ userRooms = EmptyMap
  /\ typingUsers = EmptyMap
  /\ rooms = [s \in Sockets |-> {}]
  /\ conn = [s \in Sockets |-> "new"]
  /\ tasks = [t \in TaskIds |-> Idle]
  /\ emitted = {}
  /\ log = NoLog

\* ------------------------------------------------------------------ presence

\* A faulty variant of the broadcast: the rooms are taken from userRooms instead of
\* the Store.
PresenceEventsOfTrackedRooms(u, online) ==
  {Ev("userOnlineStatusChanged", InRoom(c), c, u, {}, online) : c \in Get(userRooms, u, {})}

\* The events of updateUserOnlineStatus: one userOnlineStatusChanged per
\* conversation of the user, to that conversation's room.
PresenceEvents(u, online) ==
  {Ev("userOnlineStatusChanged", InRoom(c), c, u, {}, online) : c \in ConversationsOf(u)}

\* What handleDisconnect sends to updateUserOnlineStatus.
DisconnectOnline(u) == FALSE

\* The end of a handler that called updateUserOnlineStatus: handleConnection emits
\* connected to its client, handleDisconnect has nothing left that changes state.
AfterPresence(t, events) ==
  /\ emitted' = IF tasks[t].kind = "connect"
                THEN events \cup {Ev("connected", {tasks[t].sock}, NoConv, tasks[t].user, {}, TRUE)}
                ELSE events
  /\ log' = Log(tasks[t].kind, tasks[t].sock, "done", NoConv, NoMsg, FALSE)
  /\ tasks' = [tasks EXCEPT ![t] = Idle]

\* updateUserOnlineStatus, first await: user.update({ isOnline }).  A failure is
\* caught and logged inside updateUserOnlineStatus, which then returns.
UserUpdate(t, ok) ==
  /\ tasks[t].pc = "userUpdate"
  /\ tasks[t].kind \in {"connect", "disconnect"}
  /\ IF ok
     THEN /\ isOnline' = [isOnline EXCEPT ![tasks[t].user] =
                            IF tasks[t].kind = "connect" THEN TRUE
                            ELSE DisconnectOnline(tasks[t].user)]
          /\ tasks' = [tasks EXCEPT ![t].pc = "presenceFindMany"]
          /\ emitted' = {}
          /\ log' = Log(tasks[t].kind, tasks[t].sock, "userUpdate", NoConv, NoMsg, FALSE)
     ELSE /\ AfterPresence(t, {})
          /\ UNCHANGED isOnline
  /\ UNCHANGED <<conversations, messages, receipts, registry, rooms, conn>>

\* updateUserOnlineStatus, second await: conversation.findMany, then the broadcast.
PresenceFindMany(t, ok) ==
  /\ tasks[t].pc = "presenceFindMany"
  /\ AfterPresence(t, IF ok THEN PresenceEvents(tasks[t].user, tasks[t].kind = "connect")
                      ELSE {})
  /\ UNCHANGED <<store, registry, rooms, conn>>

\* ------------------------------------------------------------------ connection lifecycle

\* A faulty variant of the lookup in handleDisconnect: the user is taken from the
\* client instead of the registry.
DisconnectUserOfClient(s) == Principal[s]

\* const userId = this.socketToUser.get(client.id): NoUser stands for undefined
DisconnectUser(s) == Get(socketToUser, s, NoUser)

\* A faulty variant of handleDisconnect: the registry entries are left for after
\* the presence update, and are never deleted.
TearDownDeferred(s, t) ==
  /\ UNCHANGED <<socketToUser, userRooms>>
  /\ tasks' = [tasks EXCEPT ![t] =
                 IF DisconnectUser(s) # NoUser
                 THEN Task("disconnect", "userUpdate", s, DisconnectUser(s), NoConv, NoUser)
                 ELSE Idle]

\* handleDisconnect up to its first await in task slot t: the registry entries of a
\* registered connection are deleted and updateUserOnlineStatus is entered.
TearDown(s, t) ==
  IF DisconnectUser(s) # NoUser
  THEN /\ socketToUser' = Del(socketToUser, s)
       /\ userRooms' = Del(userRooms, DisconnectUser(s))
       /\ tasks' = [tasks EXCEPT ![t] =
                      Task("disconnect", "userUpdate", s, DisconnectUser(s), NoConv, NoUser)]
  ELSE /\ UNCHANGED <<socketToUser, userRooms>>
       /\ tasks' = [tasks EXCEPT ![t] = Idle]

\* The transport closes connection s (socket.io leaves all rooms and then fires
\* 'disconnect'), and handleDisconnect runs up to its first await in task slot t.
CloseAndTearDown(s, t) ==
  /\ conn' = [conn EXCEPT ![s] = "closed"]
  /\ rooms' = [rooms EXCEPT ![s] = {}]
  /\ TearDown(s, t)

\* SocketAuthMiddleware when validateToken throws: next(err) makes socket.io refuse
\* the connection with a connect_error packet; the socket is never connected and
\* handleConnection is not called for it.
SocketAuthMiddleware(s) ==
  /\ conn[s] = "new"
  /\ ValidateToken(s) = NoUser
  /\ conn' = [conn EXCEPT ![s] = "closed"]
  /\ emitted' = {Ev("connect_error", {s}, NoConv, NoUser, {}, FALSE)}
  /\ log' = Log("connect", s, "refused", NoConv, NoMsg, FALSE)
  /\ UNCHANGED <<store, registry, rooms, tasks>>

\* handleConnection up to its first await, for a connection the middleware has let
\* through: the principal is read, the session is registered, conversation.findMany
\* is issued.
ConnectBegin(s) ==
  /\ conn[s] = "new"
  /\ ValidateToken(s) # NoUser
  /\ FreeTasks # {}
  /\ IF Principal[s] = NoUser
     THEN /\ conn' = [conn EXCEPT ![s] = "closed"]
          /\ emitted' = {ErrorEv(s, NoConv)}
          /\ log' = Log("connect", s, "error", NoConv, NoMsg, FALSE)
          /\ UNCHANGED <<socketToUser, tasks>>
     ELSE /\ conn' = [conn EXCEPT ![s] = "open"]
          /\ socketToUser' = Put(socketToUser, s, Principal[s])
          /\ tasks' = [tasks EXCEPT ![Slot] =
                         Task("connect", "findMany", s, Principal[s], NoConv, NoUser)]
          /\ emitted' = {}
          /\ log' = NoLog
  /\ UNCHANGED <<store, userRooms, typingUsers, rooms>>

\* handleConnection after conversation.findMany: join every room, track them, go on
\* to updateUserOnlineStatus(userId, true).  A failure goes to the catch block:
\* error to the client and client.disconnect().
ConnectFindMany(t, ok) ==
  /\ At(t, "connect", "findMany")
  /\ LET s == tasks[t].sock
         u == tasks[t].user
     IN IF ok
        THEN /\ rooms' = [rooms EXCEPT ![s] = @ \cup ConversationsOf(u)]
             /\ userRooms' = Put(userRooms, u, ConversationsOf(u))
             /\ tasks' = [tasks EXCEPT ![t].pc = "userUpdate"]
             /\ emitted' = {}
             /\ log' = NoLog
             /\ UNCHANGED <<socketToUser, conn>>
        ELSE /\ emitted' = {ErrorEv(s, NoConv)}
             /\ log' = Log("connect", s, "error", NoConv, NoMsg, FALSE)
             /\ IF conn[s] = "open"
                THEN CloseAndTearDown(s, t)
                ELSE /\ tasks' = [tasks EXCEPT ![t] = Idle]
                     /\ UNCHANGED <<socketToUser, userRooms, rooms, conn>>
  /\ UNCHANGED <<store, typingUsers>>

\* The connection is lost or closed by the peer: handleDisconnect up to its first
\* await (the registry entries are deleted, updateUserOnlineStatus is entered).
DisconnectBegin(s) ==
  /\ conn[s] = "open"
  /\ FreeTasks # {}
  /\ CloseAndTearDown(s, Slot)
  /\ emitted' = {}
  /\ log' = Log("disconnect", s, "begin", NoConv, NoMsg, FALSE)
  /\ UNCHANGED <<store, typingUsers>>

\* handleDisconnect is invoked once more for a connection that is closed already
\* (client.disconnect(true) at its end does nothing on a closed socket).
DisconnectAgain(s) ==
  /\ conn[s] = "closed"
  /\ FreeTasks # {}
  /\ TearDown(s, Slot)
  /\ emitted' = {}
  /\ log' = Log("disconnect", s, "again", NoConv, NoMsg, FALSE)
  /\ UNCHANGED <<store, typingUsers, rooms, conn>>

\* ------------------------------------------------------------------ typing

\* A faulty variant of the lookup in the action handlers: the user is taken from
\* the client (client.user.sub) instead of the registry.
SessionUserOfClient(s) == Principal[s]

\* const userId = this.socketToUser.get(client.id) of the action handlers: NoUser
\* stands for undefined
SessionUser(s) == Get(socketToUser, s, NoUser)

\* handleStartTyping: no Store call; without a conversationId or a session the
\* handler returns without a word.
HandleStartTyping(s, c) ==
  /\ IF c = NoConv \/ SessionUser(s) = NoUser
     THEN /\ emitted' = {}
          /\ log' = Log("startTyping", s, "ignored", c, NoMsg, FALSE)
          /\ UNCHANGED typingUsers
     ELSE /\ typingUsers' = Put(typingUsers, c, Get(typingUsers, c, {}) \cup {SessionUser(s)})
          /\ emitted' = {Ev("userTyping", InRoomExcept(c, s), c, SessionUser(s), {}, TRUE)}
          /\ log' = Log("startTyping", s, "done", c, NoMsg, FALSE)
  /\ UNCHANGED <<store, socketToUser, userRooms, rooms, conn, tasks>>

\* startTyping arrives on an open connection.
StartTyping(s, c) == conn[s] = "open" /\ HandleStartTyping(s, c)

\* handleStopTyping: typingUsers.get(conversationId)?.delete(userId)
HandleStopTyping(s, c) ==
  /\ IF c = NoConv \/ SessionUser(s) = NoUser
     THEN /\ emitted' = {}
          /\ log' = Log("stopTyping", s, "ignored", c, NoMsg, FALSE)
          /\ UNCHANGED typingUsers
     ELSE /\ typingUsers' = IF Has(typingUsers, c)
                            THEN Put(typingUsers, c, typingUsers[c] \ {SessionUser(s)})
                            ELSE typingUsers
          /\ emitted' = {Ev("userStoppedTyping", InRoomExcept(c, s), c, SessionUser(s), {}, FALSE)}
          /\ log' = Log("stopTyping", s, "done", c, NoMsg, FALSE)
  /\ UNCHANGED <<store, socketToUser, userRooms, rooms, conn, tasks>>

\* stopTyping arrives on an open connection.
StopTyping(s, c) == conn[s] = "open" /\ HandleStopTyping(s, c)

\* ------------------------------------------------------------------ ConversationsService (HTTP)

\* A faulty variant of the lookup: it never finds a conversation.
FindNoConversation(userIds) == {}

\* findConversationBetweenUsers: the conversations findFirst may return, those whose
\* participants are all among userIds and of which at least one is.
FindConversationBetweenUsers(userIds) ==
  {c \in DOMAIN conversations :
     /\ conversations[c].participants \subseteq userIds
     /\ conversations[c].participants \cap userIds # {}}

NewConvId == Cardinality(DOMAIN conversations) + 1

\* conversation.create({ data: { participants: { create: [...] } } })
WithConversation(ps) ==
  Put(conversations, NewConvId, [participants |-> ps, lastMessageId |-> NoMsg])

\* ConversationsService.create: Conflict when a conversation between the
\* participants is found, otherwise the conversation is created.
CreateConversation(creator, others) ==
  /\ creator \notin others /\ others # {}
  /\ NewConvId <= MaxConvs
  /\ FindConversationBetweenUsers({creator} \cup others) = {}
  /\ conversations' = WithConversation({creator} \cup others)
  /\ emitted' = {}
  /\ log' = Log("createConversation", "none", "done", NewConvId, NoMsg, TRUE)
  /\ UNCHANGED <<isOnline, messages, receipts, registry, rooms, conn, tasks>>

\* ConversationsService.removeParticipant: the caller takes part in the conversation,
\* the participant is in it; the participant row is deleted.  Nothing else is touched.
RemoveParticipant(c, participantId, userId) ==
  /\ IsParticipant(c, userId)
  /\ IsParticipant(c, participantId)
  /\ conversations' = [conversations EXCEPT ![c].participants = @ \ {participantId}]
  /\ emitted' = {}
  /\ log' = Log("removeParticipant", "none", "done", c, NoMsg, FALSE)
  /\ UNCHANGED <<isOnline, messages, receipts, registry, rooms, conn, tasks>>

\* ------------------------------------------------------------------ gateway helpers

\* The end of a handler invocation: its emissions, what it reports, its slot freed.
Finish(t, events, outcome, conv, msg, created) ==
  /\ emitted' = events
  /\ log' = Log(tasks[t].kind, tasks[t].sock, outcome, conv, msg, created)
  /\ tasks' = [tasks EXCEPT ![t] = Idle]

\* A handler that throws before its first await: the catch block's error event.
Reject(kind, s, conv) ==
  /\ emitted' = {ErrorEv(s, conv)}
  /\ log' = Log(kind, s, "error", conv, NoMsg, FALSE)
  /\ UNCHANGED tasks

\* A handler goes on to its next Store call.
Goto(t, pc) ==
  /\ tasks' = [tasks EXCEPT ![t].pc = pc]
  /\ emitted' = {}
  /\ log' = NoLog

\* await client.join(conversationId): the adapter adds the room to the socket id
JoinRoom(s, c) == [rooms EXCEPT ![s] = @ \cup {c}]
\* await client.leave(conversationId)
LeaveRoom(s, c) == [rooms EXCEPT ![s] = @ \ {c}]
\* if (!userRooms.has(userId)) userRooms.set(userId, new Set()); userRooms.get(userId).add(c)
TrackRoom(u, c) == Put(userRooms, u, Get(userRooms, u, {}) \cup {c})
\* userRooms.get(userId)?.delete(c)
UntrackRoom(u, c) == IF Has(userRooms, u) THEN Put(userRooms, u, userRooms[u] \ {c}) ELSE userRooms

\* ------------------------------------------------------------------ ConversationsService.create / update (HTTP)

\* ConversationsService.create, its Store calls taken together: NotFound unless
\* every participant id is a user, Conflict when findConversationBetweenUsers
\* finds a conversation for the creator and the participants, otherwise the
\* conversation is created with the creator and the participants.
ConversationsCreate(creatorId, participantIds) ==
  /\ participantIds # {} /\ creatorId \notin participantIds
  /\ LET outcome == IF ~(participantIds \subseteq Users) THEN "notFound"
                     ELSE IF FindConversationBetweenUsers({creatorId} \cup participantIds) # {}
                     THEN "conflict" ELSE "done"
     IN /\ outcome = "done" => NewConvId <= MaxConvs
        /\ conversations' = IF outcome = "done"
                             THEN WithConversation({creatorId} \cup participantIds)
                             ELSE conversations
        /\ log' = [Log("conversationsCreate", "none", outcome,
                        IF outcome = "done" THEN NewConvId ELSE NoConv, NoMsg, outcome = "done")
                      EXCEPT !.result = {[creatorId |-> creatorId,
                                          participantIds |-> participantIds]}]
  /\ emitted' = {}
  /\ UNCHANGED <<isOnline, messages, receipts, registry, rooms, conn, tasks>>

\* the bodies an update of a conversation may carry (UpdateConversationDto declares
\* no field)
UpdatePayloads == {[participantIds |-> ps] : ps \in SUBSET Users}

\* A faulty variant of update: the payload is written to the conversation.
ConversationsUpdated(id, dto) ==
  [conversations EXCEPT ![id].participants = dto.participantIds]

\* The conversations after ConversationsService.update has checked the caller:
\* nothing is written.
ConversationsAfterUpdate(id, dto) == conversations

\* ConversationsService.update is called: conversation.findFirst is issued.
ConversationsUpdateBegin(id, dto, userId) ==
  /\ FreeTasks # {}
  /\ tasks' = [tasks EXCEPT ![Slot] =
                 [Task("conversationsUpdate", "findFirst", "none", userId, id, NoUser)
                    EXCEPT !.ids = dto.participantIds]]
  /\ emitted' = {}
  /\ log' = NoLog
  /\ UNCHANGED <<store, registry, rooms, conn>>

\* update after findFirst: NotFound unless the caller takes part in the
\* conversation; otherwise findOne is issued.
ConversationsUpdateFindFirst(t) ==
  /\ At(t, "conversationsUpdate", "findFirst")
  /\ IF IsParticipant(tasks[t].conv, tasks[t].user)
     THEN /\ conversations' = ConversationsAfterUpdate(tasks[t].conv, [participantIds |-> tasks[t].ids])
          /\ Goto(t, "findOne")
     ELSE /\ Finish(t, {}, "notFound", tasks[t].conv, NoMsg, FALSE)
          /\ UNCHANGED conversations
  /\ UNCHANGED <<isOnline, messages, receipts, registry, rooms, conn>>

\* update returns findOne(id, userId): the conversation as it is stored, or NotFound
\* when the caller takes no part in it any more.
ConversationsUpdateFindOne(t) ==
  /\ At(t, "conversationsUpdate", "findOne")
  /\ emitted' = {}
  /\ tasks' = [tasks EXCEPT ![t] = Idle]
  /\ log' = IF IsParticipant(tasks[t].conv, tasks[t].user)
            THEN [Log("conversationsUpdate", "none", "done", tasks[t].conv, NoMsg, FALSE)
                    EXCEPT !.result = {conversations[tasks[t].conv]}]
            ELSE Log("conversationsUpdate", "none", "notFound", tasks[t].conv, NoMsg, FALSE)
  /\ UNCHANGED <<store, registry, rooms, conn>>

\* ------------------------------------------------------------------ joinConversation / leaveConversation

\* handleJoinConversation up to conversationsService.findOne: a payload without
\* conversationId (NoConv) and a connection without session throw at once.
HandleJoinConversation(s, c) ==
  /\ IF c = NoConv \/ SessionUser(s) = NoUser
     THEN Reject("join", s, c)
     ELSE /\ FreeTasks # {}
          /\ tasks' = [tasks EXCEPT ![Slot] = Task("join", "findOne", s, SessionUser(s), c, NoUser)]
          /\ emitted' = {}
          /\ log' = NoLog
  /\ UNCHANGED <<store, registry, rooms, conn>>

\* joinConversation arrives on an open connection.
JoinBegin(s, c) == conn[s] = "open" /\ HandleJoinConversation(s, c)

\* A faulty variant of the membership check: the conversation is looked up by id
\* alone, without the participants filter.
JoinAllowedUnchecked(c, u, ok) == ok /\ c \in DOMAIN conversations

\* ConversationsService.findOne as the membership check of handleJoinConversation:
\* whether the handler goes on (the conversation exists and has the user) or throws.
JoinAllowed(c, u, ok) == ok /\ IsParticipant(c, u)

\* handleJoinConversation after findOne: NotFound (or a Store failure) goes to the
\* catch block; otherwise the room is joined and tracked and conversationJoined is
\* emitted to the client.
JoinFindOne(t, ok) ==
  /\ At(t, "join", "findOne")
  /\ LET s == tasks[t].sock
         u == tasks[t].user
         c == tasks[t].conv
     IN IF JoinAllowed(c, u, ok)
        THEN /\ rooms' = JoinRoom(s, c)
             /\ userRooms' = TrackRoom(u, c)
             /\ Finish(t, {Ev("conversationJoined", {s}, c, NoUser, {}, TRUE)}, "done", c, NoMsg, FALSE)
        ELSE /\ Finish(t, {ErrorEv(s, c)}, "error", c, NoMsg, FALSE)
             /\ UNCHANGED <<rooms, userRooms>>
  /\ UNCHANGED <<store, socketToUser, typingUsers, conn>>

\* handleLeaveConversation: no Store call, so the whole handler is one step.
HandleLeaveConversation(s, c) ==
  /\ IF c = NoConv \/ SessionUser(s) = NoUser
     THEN /\ Reject("leave", s, c)
          /\ UNCHANGED <<rooms, userRooms>>
     ELSE /\ rooms' = LeaveRoom(s, c)
          /\ userRooms' = UntrackRoom(SessionUser(s), c)
          /\ emitted' = {Ev("conversationLeft", {s}, c, NoUser, {}, TRUE)}
          /\ log' = Log("leave", s, "done", c, NoMsg, FALSE)
          /\ UNCHANGED tasks
  /\ UNCHANGED <<store, socketToUser, typingUsers, conn>>

\* leaveConversation arrives on an open connection.
LeaveConversation(s, c) == conn[s] = "open" /\ HandleLeaveConversation(s, c)

\* ------------------------------------------------------------------ findOrCreateConversationBetweenUsers

\* A faulty variant of the catch block: the room is told of the message although
\* the service call has thrown.
CatchEventsWithBroadcast(t) ==
  {ErrorEv(tasks[t].sock, tasks[t].conv),
   Ev("newMessage", InRoom(tasks[t].conv), tasks[t].conv, tasks[t].user, {tasks[t].msg},
      tasks[t].created)}

\* What the catch block of an action handler emits: error, to the client alone.
CatchEvents(t) == {ErrorEv(tasks[t].sock, tasks[t].conv)}

\* The catch block of a handler whose service call has thrown.
Catch(t) ==
  Finish(t, CatchEvents(t), "error", tasks[t].conv, tasks[t].msg, tasks[t].created)

\* handleStartConversation once the conversation id is known: join, track, emit.
StartConversationDone(t, c, created) ==
  /\ rooms' = JoinRoom(tasks[t].sock, c)
  /\ userRooms' = TrackRoom(tasks[t].user, c)
  /\ Finish(t, {Ev("conversationStarted", {tasks[t].sock}, c, tasks[t].rcpt, {}, created)},
            "done", c, NoMsg, created)

\* What follows findOrCreateConversationBetweenUsers: handleStartConversation ends,
\* MessagesService.create goes on to message.create.
AfterFindOrCreate(t, c, created) ==
  IF tasks[t].kind = "start"
  THEN StartConversationDone(t, c, created)
  ELSE /\ tasks' = [tasks EXCEPT ![t].pc = "createMessage", ![t].conv = c, ![t].created = created]
       /\ emitted' = {}
       /\ log' = NoLog
       /\ UNCHANGED <<rooms, userRooms>>

\* findOrCreateConversationBetweenUsers, first await: findConversationBetweenUsers.
\* A conversation found is returned (findFirst has no order: any of them);
\* otherwise conversation.create is issued.
FindBetween(t, ok) ==
  /\ tasks[t].pc = "findBetween"
  /\ LET found == FindConversationBetweenUsers({tasks[t].user, tasks[t].rcpt})
     IN IF ~ok
        THEN Catch(t) /\ UNCHANGED <<rooms, userRooms>>
        ELSE IF found = {}
        THEN Goto(t, "createConversation") /\ UNCHANGED <<rooms, userRooms>>
        ELSE \E c \in found : AfterFindOrCreate(t, c, FALSE)
  /\ UNCHANGED <<store, socketToUser, typingUsers, conn>>

\* A user id that no row of the User table has.
Stranger == "u9"

\* The foreign key of a participant row to its user: the nested create of the
\* participants is refused, with the conversation, unless every user exists.
ParticipantsExist(ps) == ps \subseteq Users

\* findOrCreateConversationBetweenUsers, second await: conversation.create with the
\* two participants.
CreateBetween(t, ok) ==
  /\ tasks[t].pc = "createConversation"
  /\ NewConvId <= MaxConvs
  /\ IF ok /\ ParticipantsExist({tasks[t].user, tasks[t].rcpt})
     THEN /\ conversations' = WithConversation({tasks[t].user, tasks[t].rcpt})
          /\ AfterFindOrCreate(t, NewConvId, TRUE)
     ELSE /\ Catch(t)
          /\ UNCHANGED <<conversations, rooms, userRooms>>
  /\ UNCHANGED <<isOnline, messages, receipts, socketToUser, typingUsers, conn>>

\* handleStartConversation up to findOrCreateConversationBetweenUsers.
HandleStartConversation(s, rcpt) ==
  /\ IF rcpt = NoUser \/ SessionUser(s) = NoUser
     THEN Reject("start", s, NoConv)
     ELSE /\ FreeTasks # {}
          /\ rcpt # SessionUser(s)
          /\ tasks' = [tasks EXCEPT ![Slot] =
                         Task("start", "findBetween", s, SessionUser(s), NoConv, rcpt)]
          /\ emitted' = {}
          /\ log' = NoLog
  /\ UNCHANGED <<store, registry, rooms, conn>>

\* startConversation arrives on an open connection.
StartBegin(s, rcpt) == conn[s] = "open" /\ HandleStartConversation(s, rcpt)

\* ------------------------------------------------------------------ sendMessage

\* the id of the message message.create inserts: one no stored message has
NewMsgId ==
  LET free == MsgIds \ DOMAIN messages
  IN IF free = {} THEN MaxMsgs + 1 ELSE CHOOSE m \in free : \A x \in free : m <= x

\* the sends that have not yet created their message
PendingSends == {t \in TaskIds : tasks[t].kind = "send" /\ tasks[t].msg = NoMsg}

\* The text of a message is a sequence of characters; a payload is a record that
\* may lack its content field.
Chars == {" ", "a"}
Whitespace == {" "}
Texts == UNION {[1..n -> Chars] : n \in 0..MaxLen}
SomeText == <<"a">>
Payloads ==
  {[content |-> x, conversationId |-> c, recipientId |-> r] :
     x \in Texts, c \in ConvIds \cup {NoConv}, r \in Users \cup {NoUser}}
  \cup {[conversationId |-> c, recipientId |-> r] :
           c \in ConvIds \cup {NoConv}, r \in Users \cup {NoUser}}

RECURSIVE TrimStart(_)
TrimStart(x) == IF x # <<>> /\ Head(x) \in Whitespace THEN TrimStart(Tail(x)) ELSE x
RECURSIVE TrimEnd(_)
TrimEnd(x) ==
  IF x # <<>> /\ x[Len(x)] \in Whitespace THEN TrimEnd(SubSeq(x, 1, Len(x) - 1)) ELSE x

\* A faulty variant of the normalisation: the content is taken as it is.
NoTrim(x) == x

\* String.prototype.trim
Trim(x) == TrimEnd(TrimStart(x))

\* handleSendMessage from the check of the target on, up to the first await of
\* MessagesService.create: the payload needs a conversationId or a recipientId;
\* create takes the conversationId when there is one and the recipientId otherwise.
SendValidated(s, content, c, rcpt) ==
  /\ IF (c = NoConv /\ rcpt = NoUser) \/ SessionUser(s) = NoUser
     THEN Reject("send", s, c)
     ELSE /\ FreeTasks # {}
          /\ rcpt # SessionUser(s)
          /\ Cardinality(DOMAIN messages) + Cardinality(PendingSends) < MaxMsgs
          /\ tasks' = [tasks EXCEPT ![Slot] =
                         [Task("send", IF c # NoConv THEN "findOne" ELSE "findBetween",
                               s, SessionUser(s), c, rcpt) EXCEPT !.content = content]]
          /\ emitted' = {}
          /\ log' = NoLog
  /\ UNCHANGED <<store, registry, rooms, conn>>

\* handleSendMessage: a payload without content, with empty content or with
\* content that is empty once trimmed is answered with a validation error;
\* otherwise the trimmed content goes on.
HandleSendMessage(s, payload) ==
  IF ~Has(payload, "content") \/ payload.content = <<>> \/ Len(Trim(payload.content)) = 0
  THEN /\ emitted' = {ErrorEv(s, payload.conversationId)}
       /\ log' = Log("send", s, "invalid", payload.conversationId, NoMsg, FALSE)
       /\ UNCHANGED <<store, registry, rooms, conn, tasks>>
  ELSE SendValidated(s, Trim(payload.content), payload.conversationId, payload.recipientId)

\* sendMessage arrives on an open connection.
SendPayload(s, payload) == conn[s] = "open" /\ HandleSendMessage(s, payload)

\* sendMessage with some text as content.
SendBegin(s, c, rcpt) ==
  SendPayload(s, [content |-> SomeText, conversationId |-> c, recipientId |-> rcpt])

\* MessagesService.create with a conversationId: conversationsService.findOne
\* throws NotFound unless the author takes part in the conversation.
SendFindOne(t, ok) ==
  /\ At(t, "send", "findOne")
  /\ IF ok /\ IsParticipant(tasks[t].conv, tasks[t].user)
     THEN Goto(t, "createMessage")
     ELSE Catch(t)
  /\ UNCHANGED <<store, registry, rooms, conn>>

\* MessagesService.create: message.create (the conversation row must exist).
CreateMessage(t, ok) ==
  /\ At(t, "send", "createMessage")
  /\ IF ok /\ tasks[t].conv \in DOMAIN conversations
     THEN /\ messages' = Put(messages, NewMsgId,
                             [authorId |-> tasks[t].user, conversationId |-> tasks[t].conv,
                              content |-> tasks[t].content])
          /\ tasks' = [tasks EXCEPT ![t].pc = "updateConversation", ![t].msg = NewMsgId]
          /\ emitted' = {}
          /\ log' = Log("send", tasks[t].sock, "messageCreated", tasks[t].conv, NewMsgId,
                        tasks[t].created)
     ELSE /\ Catch(t)
          /\ UNCHANGED messages
  /\ UNCHANGED <<isOnline, conversations, receipts, registry, rooms, conn>>

\* A faulty variant of the broadcast: this.server.emit, to every live socket,
\* instead of this.server.to(conversationId).emit.
SendEventsToAll(t) ==
  {Ev("newMessage", {s \in Sockets : conn[s] = "open"}, tasks[t].conv, tasks[t].user,
      {tasks[t].msg}, tasks[t].created),
   Ev("messageSent", {tasks[t].sock}, tasks[t].conv, tasks[t].user, {tasks[t].msg},
      tasks[t].created)}

\* What handleSendMessage emits once MessagesService.create has returned: newMessage
\* to the conversation's room, messageSent to the sender.
SendEvents(t) ==
  {Ev("newMessage", InRoom(tasks[t].conv), tasks[t].conv, tasks[t].user, {tasks[t].msg},
      tasks[t].created),
   Ev("messageSent", {tasks[t].sock}, tasks[t].conv, tasks[t].user, {tasks[t].msg},
      tasks[t].created)}

\* MessagesService.create: conversation.update of the last-message pointer, then the
\* return to handleSendMessage, which broadcasts.
UpdateConversation(t, ok) ==
  /\ At(t, "send", "updateConversation")
  /\ IF ok /\ tasks[t].conv \in DOMAIN conversations /\ tasks[t].msg \in DOMAIN messages
     THEN /\ conversations' = [conversations EXCEPT ![tasks[t].conv].lastMessageId = tasks[t].msg]
          /\ Finish(t, SendEvents(t), "done", tasks[t].conv, tasks[t].msg, tasks[t].created)
     ELSE /\ Catch(t)
          /\ UNCHANGED conversations
  /\ UNCHANGED <<isOnline, messages, receipts, registry, rooms, conn>>

\* ------------------------------------------------------------------ markAsRead

\* A faulty variant of the query: the authorId filter is missing, so the user's own
\* messages count as unread too.
UnreadAnyAuthor(c, u) ==
  {m \in DOMAIN messages : messages[m].conversationId = c /\ receipts[<<m, u>>] = 0}

\* message.findMany of MessagesService.markAsRead: the messages of the conversation
\* by another author without a receipt of the user.
Unread(c, u) ==
  {m \in DOMAIN messages :
     /\ messages[m].conversationId = c
     /\ messages[m].authorId # u
     /\ receipts[<<m, u>>] = 0}

\* createMany({ skipDuplicates: true })
SkipDuplicates == TRUE

\* A faulty variant of the schema: no unique index on (messageId, userId).
NoUniqueIndex(m, u) == TRUE

\* The unique index MessageReadReceipt_messageId_userId_key: whether a row for the
\* pair may be inserted.
UniqueIndexAllows(m, u) == receipts[<<m, u>>] = 0

\* messageReadReceipt.createMany: the rows the index allows are inserted.
InsertReceipts(ids, u) ==
  [k \in DOMAIN receipts |->
     IF k[1] \in ids /\ k[2] = u /\ UniqueIndexAllows(k[1], u)
     THEN receipts[k] + 1 ELSE receipts[k]]

\* handleMarkAsRead up to the first await of MessagesService.markAsRead.
HandleMarkAsRead(s, c) ==
  /\ IF c = NoConv \/ SessionUser(s) = NoUser
     THEN Reject("mark", s, c)
     ELSE /\ FreeTasks # {}
          /\ tasks' = [tasks EXCEPT ![Slot] =
                         Task("mark", "findUnread", s, SessionUser(s), c, NoUser)]
          /\ emitted' = {}
          /\ log' = NoLog
  /\ UNCHANGED <<store, registry, rooms, conn>>

\* markAsRead arrives on an open connection.
MarkBegin(s, c) == conn[s] = "open" /\ HandleMarkAsRead(s, c)

\* What handleMarkAsRead emits once markAsRead has returned: messagesRead with the
\* ids found unread, to the room without the client.
MarkEvents(t, ids) ==
  {Ev("messagesRead", InRoomExcept(tasks[t].conv, tasks[t].sock), tasks[t].conv,
      tasks[t].user, ids, TRUE)}

\* markAsRead after message.findMany: nothing unread returns at once, otherwise
\* createMany is issued.
MarkFindUnread(t, ok) ==
  /\ At(t, "mark", "findUnread")
  /\ LET ids == Unread(tasks[t].conv, tasks[t].user)
     IN IF ~ok THEN Catch(t)
        ELSE IF ids = {}
        THEN Finish(t, MarkEvents(t, {}), "done", tasks[t].conv, NoMsg, FALSE)
        ELSE /\ tasks' = [tasks EXCEPT ![t].pc = "createMany", ![t].ids = ids]
             /\ emitted' = {}
             /\ log' = NoLog
  /\ UNCHANGED <<store, registry, rooms, conn>>

\* markAsRead: createMany of the receipts.  Without skipDuplicates a row the unique
\* index refuses makes the call throw.
MarkCreateMany(t, ok) ==
  /\ At(t, "mark", "createMany")
  /\ LET ids == tasks[t].ids
         u == tasks[t].user
     IN IF ok /\ ids \subseteq DOMAIN messages
              /\ (SkipDuplicates \/ \A m \in ids : UniqueIndexAllows(m, u))
        THEN /\ receipts' = InsertReceipts(ids, u)
             /\ Finish(t, MarkEvents(t, ids), "done", tasks[t].conv, NoMsg, FALSE)
        ELSE /\ Catch(t)
             /\ UNCHANGED receipts
  /\ UNCHANGED <<isOnline, conversations, messages, registry, rooms, conn>>

\* ------------------------------------------------------------------ MessagesService.update / remove (HTTP)

\* the bodies an update of a message may carry: UpdateMessageDto has one field,
\* content, and it is optional
UpdateMessageDtos == {[f \in fs |-> <<"a", "a">>] : fs \in SUBSET {"content"}}

\* A faulty variant of the ownership test: every caller passes.
AnyoneIsAuthor(existingMessage, userId) == TRUE

\* existingMessage.authorId === userId
IsAuthor(existingMessage, userId) == existingMessage.authorId = userId

\* message.update({ data: updateMessageDto }): the fields the body has are written
WithData(message, dto) == [f \in DOMAIN message |-> IF f \in DOMAIN dto THEN dto[f] ELSE message[f]]

\* message.delete: the row goes, its read receipts go with it (ON DELETE CASCADE)
\* and the last-message pointers to it are set to null (ON DELETE SET NULL).
MessagesWithout(id) == [m \in DOMAIN messages \ {id} |-> messages[m]]
ReceiptsWithout(id) == [k \in DOMAIN receipts |-> IF k[1] = id THEN 0 ELSE receipts[k]]
ConversationsWithout(id) ==
  [c \in DOMAIN conversations |->
     IF conversations[c].lastMessageId = id
     THEN [conversations[c] EXCEPT !.lastMessageId = NoMsg] ELSE conversations[c]]

\* MessagesService.update is called: message.findUnique is issued.
MessagesUpdateBegin(id, dto, userId) ==
  /\ FreeTasks # {}
  /\ tasks' = [tasks EXCEPT ![Slot] =
                 [Task("messagesUpdate", "findUnique", "none", userId, NoConv, NoUser)
                    EXCEPT !.msg = id, !.ids = {dto}]]
  /\ emitted' = {}
  /\ log' = NoLog
  /\ UNCHANGED <<store, registry, rooms, conn>>

\* MessagesService.remove is called: message.findUnique is issued.
MessagesRemoveBegin(id, userId) ==
  /\ FreeTasks # {}
  /\ tasks' = [tasks EXCEPT ![Slot] =
                 [Task("messagesRemove", "findUnique", "none", userId, NoConv, NoUser)
                    EXCEPT !.msg = id]]
  /\ emitted' = {}
  /\ log' = NoLog
  /\ UNCHANGED <<store, registry, rooms, conn>>

\* update and remove after findUnique: NotFound without the message, Forbidden
\* unless the caller is its author, otherwise the write is issued.
CheckExistingMessage(t, write) ==
  IF ~Has(messages, tasks[t].msg)
  THEN Finish(t, {}, "notFound", NoConv, tasks[t].msg, FALSE)
  ELSE IF ~IsAuthor(messages[tasks[t].msg], tasks[t].user)
  THEN Finish(t, {}, "forbidden", NoConv, tasks[t].msg, FALSE)
  ELSE Goto(t, write)

MessagesUpdateFindUnique(t) ==
  /\ At(t, "messagesUpdate", "findUnique")
  /\ CheckExistingMessage(t, "update")
  /\ UNCHANGED <<store, registry, rooms, conn>>

MessagesRemoveFindUnique(t) ==
  /\ At(t, "messagesRemove", "findUnique")
  /\ CheckExistingMessage(t, "delete")
  /\ UNCHANGED <<store, registry, rooms, conn>>

\* update: message.update, which throws when the row is gone.
MessagesUpdateWrite(t) ==
  /\ At(t, "messagesUpdate", "update")
  /\ LET id == tasks[t].msg
         dto == CHOOSE d \in tasks[t].ids : TRUE
     IN IF Has(messages, id)
        THEN /\ messages' = [messages EXCEPT ![id] = WithData(@, dto)]
             /\ Finish(t, {}, "done", messages[id].conversationId, id, FALSE)
        ELSE /\ Finish(t, {}, "error", NoConv, id, FALSE)
             /\ UNCHANGED messages
  /\ UNCHANGED <<isOnline, conversations, receipts, registry, rooms, conn>>

\* remove: message.delete, which throws when the row is gone.
MessagesRemoveDelete(t) ==
  /\ At(t, "messagesRemove", "delete")
  /\ LET id == tasks[t].msg
     IN IF Has(messages, id)
        THEN /\ messages' = MessagesWithout(id)
             /\ receipts' = ReceiptsWithout(id)
             /\ conversations' = ConversationsWithout(id)
             /\ Finish(t, {}, "done", messages[id].conversationId, id, FALSE)
        ELSE /\ Finish(t, {}, "error", NoConv, id, FALSE)
             /\ UNCHANGED <<messages, receipts, conversations>>
  /\ UNCHANGED <<isOnline, registry, rooms, conn>>

\* ------------------------------------------------------------------ specifications

\* Connections come and go, conversations are created over HTTP; handlers
\* interleave at their Store calls, and no Store call fails.
PresenceNext ==
  \/ \E s \in Sockets : ConnectBegin(s)
  \/ \E s \in Sockets : DisconnectBegin(s)
  \/ \E t \in TaskIds : ConnectFindMany(t, TRUE)
  \/ \E t \in TaskIds : UserUpdate(t, TRUE)
  \/ \E t \in TaskIds : PresenceFindMany(t, TRUE)
  \/ \E u \in Users : CreateConversation(u, Users \ {u})

SpecPresence == Init /\ [][PresenceNext]_vars

\* The same, one handler at a time: a handler starts only when none is suspended.
PresenceSeqNext ==
  \/ Quiescent /\ \E s \in Sockets : ConnectBegin(s)
  \/ Quiescent /\ \E s \in Sockets : DisconnectBegin(s)
  \/ \E t \in TaskIds : ConnectFindMany(t, TRUE)
  \/ \E t \in TaskIds : UserUpdate(t, TRUE)
  \/ \E t \in TaskIds : PresenceFindMany(t, TRUE)
  \/ Quiescent /\ \E u \in Users : CreateConversation(u, Users \ {u})

SpecPresenceSeq == Init /\ [][PresenceSeqNext]_vars

\* The connections used outside the presence specifications: one of each user.
Pair == {"s1", "s3"}

\* Connections are set up one at a time; over them joinConversation and
\* leaveConversation interleave at their Store calls with each other, with
\* disconnects and with the HTTP changes of participation.
JoinNext ==
  \/ Quiescent /\ \E s \in Pair : ConnectBegin(s)
  \/ \E s \in Pair : DisconnectBegin(s)
  \/ \E t \in TaskIds : ConnectFindMany(t, TRUE)
  \/ \E t \in TaskIds : UserUpdate(t, TRUE)
  \/ \E t \in TaskIds : PresenceFindMany(t, TRUE)
  \/ \E s \in Pair, c \in ConvIds : JoinBegin(s, c)
  \/ \E t \in TaskIds : JoinFindOne(t, TRUE)
  \/ \E s \in Pair, c \in ConvIds : LeaveConversation(s, c)
  \/ \E u \in Users : CreateConversation(u, Users \ {u})
  \/ \E c \in ConvIds, p, u \in Users : RemoveParticipant(c, p, u)

SpecJoin == Init /\ [][JoinNext]_vars

\* Room membership against broadcasts: joins, leaves and disconnects interleave
\* with sendMessage to a conversation.
RoomsNext ==
  \/ Quiescent /\ \E s \in Pair : ConnectBegin(s)
  \/ \E s \in Pair : DisconnectBegin(s)
  \/ \E t \in TaskIds : ConnectFindMany(t, TRUE)
  \/ \E t \in TaskIds : UserUpdate(t, TRUE)
  \/ \E t \in TaskIds : PresenceFindMany(t, TRUE)
  \/ \E s \in Pair, c \in ConvIds : JoinBegin(s, c)
  \/ \E t \in TaskIds : JoinFindOne(t, TRUE)
  \/ \E s \in Pair, c \in ConvIds : LeaveConversation(s, c)
  \/ \E s \in Pair, c \in ConvIds : SendBegin(s, c, NoUser)
  \/ \E t \in TaskIds : SendFindOne(t, TRUE)
  \/ \E t \in TaskIds : CreateMessage(t, TRUE)
  \/ \E t \in TaskIds : UpdateConversation(t, TRUE)
  \/ Quiescent /\ \E u \in Users : CreateConversation(u, Users \ {u})

SpecRooms == Init /\ [][RoomsNext]_vars

\* sendMessage (to a conversation or to a recipient) and startConversation, one
\* handler at a time, with the HTTP changes of participation; any Store call of
\* MessagesService.create and of findOrCreateConversationBetweenUsers may fail.
SendNext ==
  \/ Quiescent /\ \E s \in Pair : ConnectBegin(s)
  \/ \E t \in TaskIds : ConnectFindMany(t, TRUE)
  \/ \E t \in TaskIds : UserUpdate(t, TRUE)
  \/ \E t \in TaskIds : PresenceFindMany(t, TRUE)
  \/ Quiescent /\ \E s \in Pair, c \in ConvIds : JoinBegin(s, c)
  \/ \E t \in TaskIds : JoinFindOne(t, TRUE)
  \/ Quiescent /\ \E s \in Pair, c \in ConvIds \cup {NoConv}, r \in Users \cup {NoUser} :
       SendBegin(s, c, r)
  \/ Quiescent /\ \E s \in Pair, r \in Users : StartBegin(s, r)
  \/ \E t \in TaskIds, ok \in BOOLEAN : SendFindOne(t, ok)
  \/ \E t \in TaskIds, ok \in BOOLEAN : FindBetween(t, ok)
  \/ \E t \in TaskIds, ok \in BOOLEAN : CreateBetween(t, ok)
  \/ \E t \in TaskIds, ok \in BOOLEAN : CreateMessage(t, ok)
  \/ \E t \in TaskIds, ok \in BOOLEAN : UpdateConversation(t, ok)
  \/ Quiescent /\ \E u \in Users : CreateConversation(u, Users \ {u})
  \/ Quiescent /\ \E c \in ConvIds, p, u \in Users : RemoveParticipant(c, p, u)

SpecSend == Init /\ [][SendNext]_vars

\* markAsRead from the connections of both users, interleaved at the Store calls
\* with each other and with sendMessage; no Store call fails.
ReadNext ==
  \/ Quiescent /\ \E s \in Sockets : ConnectBegin(s)
  \/ \E t \in TaskIds : ConnectFindMany(t, TRUE)
  \/ \E t \in TaskIds : UserUpdate(t, TRUE)
  \/ \E t \in TaskIds : PresenceFindMany(t, TRUE)
  \/ \E s \in Sockets, c \in ConvIds : SendBegin(s, c, NoUser)
  \/ \E t \in TaskIds : SendFindOne(t, TRUE)
  \/ \E t \in TaskIds : CreateMessage(t, TRUE)
  \/ \E t \in TaskIds : UpdateConversation(t, TRUE)
  \/ \E s \in Sockets, c \in ConvIds : MarkBegin(s, c)
  \/ \E t \in TaskIds : MarkFindUnread(t, TRUE)
  \/ \E t \in TaskIds : MarkCreateMany(t, TRUE)
  \/ Quiescent /\ \E u \in Users : CreateConversation(u, Users \ {u})

SpecRead == Init /\ [][ReadNext]_vars

\* sendMessage and markAsRead interleaved at their Store calls, any of which may
\* fail, over connections that have joined their rooms.
FaultsNext ==
  \/ Quiescent /\ \E s \in Pair : ConnectBegin(s)
  \/ \E t \in TaskIds : ConnectFindMany(t, TRUE)
  \/ \E t \in TaskIds : UserUpdate(t, TRUE)
  \/ \E t \in TaskIds : PresenceFindMany(t, TRUE)
  \/ \E s \in Pair, c \in ConvIds : SendBegin(s, c, NoUser)
  \/ \E s \in Pair, r \in Users : SendBegin(s, NoConv, r)
  \/ \E t \in TaskIds, ok \in BOOLEAN : SendFindOne(t, ok)
  \/ \E t \in TaskIds, ok \in BOOLEAN : FindBetween(t, ok)
  \/ \E t \in TaskIds, ok \in BOOLEAN : CreateBetween(t, ok)
  \/ \E t \in TaskIds, ok \in BOOLEAN : CreateMessage(t, ok)
  \/ \E t \in TaskIds, ok \in BOOLEAN : UpdateConversation(t, ok)
  \/ \E s \in Pair, c \in ConvIds : MarkBegin(s, c)
  \/ \E t \in TaskIds, ok \in BOOLEAN : MarkFindUnread(t, ok)
  \/ \E t \in TaskIds, ok \in BOOLEAN : MarkCreateMany(t, ok)
  \/ Quiescent /\ \E u \in Users : CreateConversation(u, Users \ {u})

SpecFaults == Init /\ [][FaultsNext]_vars

\* a handler invoked for the connection has not finished yet
Busy(s) == \E t \in TaskIds : tasks[t].kind # "idle" /\ tasks[t].sock = s

\* startConversation and sendMessage to a recipient from the connections of both
\* users, interleaved at the Store calls of findOrCreateConversationBetweenUsers;
\* a client sends its next action when the last one is answered, and no Store
\* call fails.
StartNext ==
  \/ Quiescent /\ \E s \in Pair : ConnectBegin(s)
  \/ \E t \in TaskIds : ConnectFindMany(t, TRUE)
  \/ \E t \in TaskIds : UserUpdate(t, TRUE)
  \/ \E t \in TaskIds : PresenceFindMany(t, TRUE)
  \/ \E s \in Pair, r \in Users : ~Busy(s) /\ StartBegin(s, r)
  \/ \E s \in Pair, r \in Users : ~Busy(s) /\ SendBegin(s, NoConv, r)
  \/ \E t \in TaskIds : FindBetween(t, TRUE)
  \/ \E t \in TaskIds : CreateBetween(t, TRUE)
  \/ \E t \in TaskIds : CreateMessage(t, TRUE)
  \/ \E t \in TaskIds : UpdateConversation(t, TRUE)

SpecStart == Init /\ [][StartNext]_vars

\* sendMessage with every payload: content present or not, padded or blank, with
\* and without conversationId and recipientId; one handler at a time, and no
\* Store call fails.
PayloadNext ==
  \/ Quiescent /\ \E s \in Pair : ConnectBegin(s)
  \/ \E t \in TaskIds : ConnectFindMany(t, TRUE)
  \/ \E t \in TaskIds : UserUpdate(t, TRUE)
  \/ \E t \in TaskIds : PresenceFindMany(t, TRUE)
  \/ Quiescent /\ \E s \in Pair, payload \in Payloads : SendPayload(s, payload)
  \/ \E t \in TaskIds : SendFindOne(t, TRUE)
  \/ \E t \in TaskIds : FindBetween(t, TRUE)
  \/ \E t \in TaskIds : CreateBetween(t, TRUE)
  \/ \E t \in TaskIds : CreateMessage(t, TRUE)
  \/ \E t \in TaskIds : UpdateConversation(t, TRUE)
  \/ Quiescent /\ \E u \in Users : CreateConversation(u, Users \ {u})

SpecPayload == Init /\ [][PayloadNext]_vars

\* Handshakes with and without a valid token: the middleware refuses or lets
\* through, the connections let through connect and disconnect, interleaved.
AuthNext ==
  \/ \E s \in Sockets \ {"s2"} : SocketAuthMiddleware(s)
  \/ \E s \in Sockets \ {"s2"} : ConnectBegin(s)
  \/ \E s \in Sockets \ {"s2"} : DisconnectBegin(s)
  \/ \E t \in TaskIds : ConnectFindMany(t, TRUE)
  \/ \E t \in TaskIds : UserUpdate(t, TRUE)
  \/ \E t \in TaskIds : PresenceFindMany(t, TRUE)
  \/ Quiescent /\ \E u \in Users : CreateConversation(u, Users \ {u})

SpecAuth == Init /\ [][AuthNext]_vars

\* Connections come and go as in PresenceNext, and 'disconnect' may be delivered
\* again for a connection that is closed.
LifecycleNext ==
  \/ \E s \in Sockets : ConnectBegin(s)
  \/ \E s \in Sockets : DisconnectBegin(s)
  \/ \E s \in Sockets : DisconnectAgain(s)
  \/ \E t \in TaskIds : ConnectFindMany(t, TRUE)
  \/ \E t \in TaskIds : UserUpdate(t, TRUE)
  \/ \E t \in TaskIds : PresenceFindMany(t, TRUE)
  \/ Quiescent /\ \E u \in Users : CreateConversation(u, Users \ {u})

SpecLifecycle == Init /\ [][LifecycleNext]_vars

\* Typing indicators over connections that come and go.
TypingNext ==
  \/ Quiescent /\ \E s \in Pair : ConnectBegin(s)
  \/ \E s \in Pair : DisconnectBegin(s)
  \/ \E t \in TaskIds : ConnectFindMany(t, TRUE)
  \/ \E t \in TaskIds : UserUpdate(t, TRUE)
  \/ \E t \in TaskIds : PresenceFindMany(t, TRUE)
  \/ \E s \in Pair, c \in ConvIds \cup {NoConv} : StartTyping(s, c)
  \/ \E s \in Pair, c \in ConvIds \cup {NoConv} : StopTyping(s, c)
  \/ Quiescent /\ \E u \in Users : CreateConversation(u, Users \ {u})

SpecTyping == Init /\ [][TypingNext]_vars

\* u1's connection s1 comes and goes while u2's connection s3 stays; no Store call
\* fails, and a handler suspended on a Store call is resumed when the call returns.
OfflineNext ==
  \/ Quiescent /\ \E s \in Pair : ConnectBegin(s)
  \/ DisconnectBegin("s1")
  \/ \E t \in TaskIds : ConnectFindMany(t, TRUE)
  \/ \E t \in TaskIds : UserUpdate(t, TRUE)
  \/ \E t \in TaskIds : PresenceFindMany(t, TRUE)
  \/ \E c \in ConvIds : JoinBegin("s3", c)
  \/ \E t \in TaskIds : JoinFindOne(t, TRUE)
  \/ Quiescent /\ \E u \in Users : CreateConversation(u, Users \ {u})

OfflineFairness ==
  \A t \in TaskIds :
    /\ WF_vars(ConnectFindMany(t, TRUE))
    /\ WF_vars(UserUpdate(t, TRUE))
    /\ WF_vars(PresenceFindMany(t, TRUE))
    /\ WF_vars(JoinFindOne(t, TRUE))

SpecOffline == Init /\ [][OfflineNext]_vars /\ OfflineFairness

\* Every inbound action over the connections of both users, one handler at a time:
\* payloads with and without their fields, and Store calls of the actions that
\* may fail.
ErrorsNext ==
  \/ Quiescent /\ \E s \in Pair : ConnectBegin(s)
  \/ \E t \in TaskIds : ConnectFindMany(t, TRUE)
  \/ \E t \in TaskIds : UserUpdate(t, TRUE)
  \/ \E t \in TaskIds : PresenceFindMany(t, TRUE)
  \/ Quiescent /\ \E s \in Pair, c \in ConvIds \cup {NoConv} : JoinBegin(s, c)
  \/ \E t \in TaskIds, ok \in BOOLEAN : JoinFindOne(t, ok)
  \/ Quiescent /\ \E s \in Pair, c \in ConvIds \cup {NoConv} : LeaveConversation(s, c)
  \/ Quiescent /\ \E s \in Pair, c \in ConvIds \cup {NoConv} : SendBegin(s, c, NoUser)
  \/ Quiescent /\ \E s \in Pair, c \in ConvIds :
       SendPayload(s, [content |-> <<" ">>, conversationId |-> c, recipientId |-> NoUser])
  \/ Quiescent /\ \E s \in Pair, r \in Users \cup {NoUser} : StartBegin(s, r)
  \/ \E t \in TaskIds, ok \in BOOLEAN : SendFindOne(t, ok)
  \/ \E t \in TaskIds, ok \in BOOLEAN : FindBetween(t, ok)
  \/ \E t \in TaskIds, ok \in BOOLEAN : CreateBetween(t, ok)
  \/ \E t \in TaskIds, ok \in BOOLEAN : CreateMessage(t, ok)
  \/ \E t \in TaskIds, ok \in BOOLEAN : UpdateConversation(t, ok)
  \/ Quiescent /\ \E s \in Pair, c \in ConvIds \cup {NoConv} : MarkBegin(s, c)
  \/ \E t \in TaskIds, ok \in BOOLEAN : MarkFindUnread(t, ok)
  \/ \E t \in TaskIds, ok \in BOOLEAN : MarkCreateMany(t, ok)
  \/ Quiescent /\ \E s \in Pair, c \in ConvIds \cup {NoConv} : StartTyping(s, c)
  \/ Quiescent /\ \E s \in Pair, c \in ConvIds \cup {NoConv} : StopTyping(s, c)
  \/ Quiescent /\ \E u \in Users : CreateConversation(u, Users \ {u})

SpecErrors == Init /\ [][ErrorsNext]_vars

\* markAsRead and sendMessage to a conversation, one handler at a time, while
\* participants are removed over HTTP; no Store call fails.
OutsiderNext ==
  \/ Quiescent /\ \E s \in Pair : ConnectBegin(s)
  \/ \E t \in TaskIds : ConnectFindMany(t, TRUE)
  \/ \E t \in TaskIds : UserUpdate(t, TRUE)
  \/ \E t \in TaskIds : PresenceFindMany(t, TRUE)
  \/ Quiescent /\ \E s \in Pair, c \in ConvIds : SendBegin(s, c, NoUser)
  \/ \E t \in TaskIds : SendFindOne(t, TRUE)
  \/ \E t \in TaskIds : CreateMessage(t, TRUE)
  \/ \E t \in TaskIds : UpdateConversation(t, TRUE)
  \/ Quiescent /\ \E s \in Pair, c \in ConvIds : MarkBegin(s, c)
  \/ \E t \in TaskIds : MarkFindUnread(t, TRUE)
  \/ \E t \in TaskIds : MarkCreateMany(t, TRUE)
  \/ Quiescent /\ \E u \in Users : CreateConversation(u, Users \ {u})
  \/ Quiescent /\ \E c \in ConvIds, p, u \in Users : RemoveParticipant(c, p, u)

SpecOutsider == Init /\ [][OutsiderNext]_vars

\* Connections come and go one handler at a time, and every Store call of
\* handleConnection and of updateUserOnlineStatus may fail.
TeardownNext ==
  \/ Quiescent /\ \E s \in Sockets : ConnectBegin(s)
  \/ Quiescent /\ \E s \in Sockets : DisconnectBegin(s)
  \/ \E t \in TaskIds, ok \in BOOLEAN : ConnectFindMany(t, ok)
  \/ \E t \in TaskIds, ok \in BOOLEAN : UserUpdate(t, ok)
  \/ \E t \in TaskIds, ok \in BOOLEAN : PresenceFindMany(t, ok)
  \/ Quiescent /\ \E u \in Users : CreateConversation(u, Users \ {u})

SpecTeardown == Init /\ [][TeardownNext]_vars

\* Room tracking: the connections of both users (two of u1) connect, join, leave
\* and disconnect, one handler at a time; no Store call fails.
TrackNext ==
  \/ Quiescent /\ \E s \in Sockets : ConnectBegin(s)
  \/ Quiescent /\ \E s \in Sockets : DisconnectBegin(s)
  \/ \E t \in TaskIds : ConnectFindMany(t, TRUE)
  \/ \E t \in TaskIds : UserUpdate(t, TRUE)
  \/ \E t \in TaskIds : PresenceFindMany(t, TRUE)
  \/ Quiescent /\ \E s \in Sockets, c \in ConvIds : JoinBegin(s, c)
  \/ \E t \in TaskIds : JoinFindOne(t, TRUE)
  \/ Quiescent /\ \E s \in Sockets, c \in ConvIds : LeaveConversation(s, c)
  \/ Quiescent /\ \E u \in Users : CreateConversation(u, Users \ {u})

SpecTrack == Init /\ [][TrackNext]_vars

\* startConversation with a recipient that is a user or is not, one handler at a
\* time, with the HTTP changes of participation; no Store call fails.
StrangerNext ==
  \/ Quiescent /\ \E s \in Pair : ConnectBegin(s)
  \/ \E t \in TaskIds : ConnectFindMany(t, TRUE)
  \/ \E t \in TaskIds : UserUpdate(t, TRUE)
  \/ \E t \in TaskIds : PresenceFindMany(t, TRUE)
  \/ Quiescent /\ \E s \in Pair, r \in Users \cup {Stranger} : StartBegin(s, r)
  \/ \E t \in TaskIds : FindBetween(t, TRUE)
  \/ \E t \in TaskIds : CreateBetween(t, TRUE)
  \/ Quiescent /\ \E u \in Users : CreateConversation(u, Users \ {u})
  \/ Quiescent /\ \E c \in ConvIds, p, u \in Users : RemoveParticipant(c, p, u)

SpecStranger == Init /\ [][StrangerNext]_vars

\* The HTTP operations on conversations, interleaved at the Store calls of update.
ConversationsNext ==
  \/ \E u \in Users, ps \in SUBSET (Users \cup {Stranger}) : ConversationsCreate(u, ps)
  \/ \E c \in ConvIds, dto \in UpdatePayloads, u \in Users : ConversationsUpdateBegin(c, dto, u)
  \/ \E t \in TaskIds : ConversationsUpdateFindFirst(t)
  \/ \E t \in TaskIds : ConversationsUpdateFindOne(t)
  \/ \E c \in ConvIds, p, u \in Users : RemoveParticipant(c, p, u)

SpecConversations == Init /\ [][ConversationsNext]_vars

\* Typing indicators while participants are removed over HTTP; connections are
\* set up one at a time.
IntruderNext ==
  \/ Quiescent /\ \E s \in Pair : ConnectBegin(s)
  \/ \E t \in TaskIds : ConnectFindMany(t, TRUE)
  \/ \E t \in TaskIds : UserUpdate(t, TRUE)
  \/ \E t \in TaskIds : PresenceFindMany(t, TRUE)
  \/ \E s \in Pair, c \in ConvIds : StartTyping(s, c)
  \/ \E s \in Pair, c \in ConvIds : StopTyping(s, c)
  \/ Quiescent /\ \E u \in Users : CreateConversation(u, Users \ {u})
  \/ Quiescent /\ \E c \in ConvIds, p, u \in Users : RemoveParticipant(c, p, u)

SpecIntruder == Init /\ [][IntruderNext]_vars

\* no gateway handler is suspended
OnlyHttpInFlight == \A t \in TaskIds : tasks[t].kind \in {"idle", "messagesUpdate", "messagesRemove"}

\* Messages are sent and read over the gateway, one handler at a time; over HTTP
\* any user updates and removes any message id, and these calls interleave with
\* each other at their Store calls.
MessagesNext ==
  \/ Quiescent /\ \E s \in Pair : ConnectBegin(s)
  \/ \E t \in TaskIds : ConnectFindMany(t, TRUE)
  \/ \E t \in TaskIds : UserUpdate(t, TRUE)
  \/ \E t \in TaskIds : PresenceFindMany(t, TRUE)
  \/ Quiescent /\ \E u \in Users : CreateConversation(u, Users \ {u})
  \/ Quiescent /\ \E s \in Pair, c \in ConvIds : SendBegin(s, c, NoUser)
  \/ \E t \in TaskIds : SendFindOne(t, TRUE)
  \/ \E t \in TaskIds : CreateMessage(t, TRUE)
  \/ \E t \in TaskIds : UpdateConversation(t, TRUE)
  \/ Quiescent /\ \E s \in Pair, c \in ConvIds : MarkBegin(s, c)
  \/ \E t \in TaskIds : MarkFindUnread(t, TRUE)
  \/ \E t \in TaskIds : MarkCreateMany(t, TRUE)
  \/ OnlyHttpInFlight /\ \E id \in MsgIds, dto \in UpdateMessageDtos, u \in Users :
       MessagesUpdateBegin(id, dto, u)
  \/ OnlyHttpInFlight /\ \E id \in MsgIds, u \in Users : MessagesRemoveBegin(id, u)
  \/ \E t \in TaskIds : MessagesUpdateFindUnique(t)
  \/ \E t \in TaskIds : MessagesRemoveFindUnique(t)
  \/ \E t \in TaskIds : MessagesUpdateWrite(t)
  \/ \E t \in TaskIds : MessagesRemoveDelete(t)

SpecMessages == Init /\ [][MessagesNext]_vars

\* the connection has been connected: a message it sent while it was open is
\* handled while it is open or, when the close overtakes the handler, after it
Delivered(s) == conn[s] \in {"open", "closed"}

\* Every inbound action, one handler at a time, over connections that come and go;
\* a handler may start after its connection has been torn down.  No Store call
\* fails.
LateNext ==
  \/ Quiescent /\ \E s \in Pair : ConnectBegin(s)
  \/ Quiescent /\ \E s \in Pair : DisconnectBegin(s)
  \/ \E t \in TaskIds : ConnectFindMany(t, TRUE)
  \/ \E t \in TaskIds : UserUpdate(t, TRUE)
  \/ \E t \in TaskIds : PresenceFindMany(t, TRUE)
  \/ Quiescent /\ \E s \in Pair, c \in ConvIds : Delivered(s) /\ HandleJoinConversation(s, c)
  \/ \E t \in TaskIds : JoinFindOne(t, TRUE)
  \/ Quiescent /\ \E s \in Pair, c \in ConvIds : Delivered(s) /\ HandleLeaveConversation(s, c)
  \/ Quiescent /\ \E s \in Pair, c \in ConvIds :
       Delivered(s) /\ HandleSendMessage(s, [content |-> SomeText, conversationId |-> c,
                                              recipientId |-> NoUser])
  \/ \E t \in TaskIds : SendFindOne(t, TRUE)
  \/ \E t \in TaskIds : CreateMessage(t, TRUE)
  \/ \E t \in TaskIds : UpdateConversation(t, TRUE)
  \/ Quiescent /\ \E s \in Pair, r \in Users : Delivered(s) /\ HandleStartConversation(s, r)
  \/ \E t \in TaskIds : FindBetween(t, TRUE)
  \/ \E t \in TaskIds : CreateBetween(t, TRUE)
  \/ Quiescent /\ \E s \in Pair, c \in ConvIds : Delivered(s) /\ HandleMarkAsRead(s, c)
  \/ \E t \in TaskIds : MarkFindUnread(t, TRUE)
  \/ \E t \in TaskIds : MarkCreateMany(t, TRUE)
  \/ Quiescent /\ \E s \in Pair, c \in ConvIds : Delivered(s) /\ HandleStartTyping(s, c)
  \/ Quiescent /\ \E s \in Pair, c \in ConvIds : Delivered(s) /\ HandleStopTyping(s, c)

SpecLate == Init /\ [][LateNext]_vars

\* ------------------------------------------------------------------ presence claims

Registered(u) == {s \in DOMAIN socketToUser : socketToUser[s] = u}

\* C1: while a user still has a registered connection, a finished disconnect of
\* another of the user's connections leaves the stored isOnline true and
\* broadcasts no offline event; only the last disconnect sets it to false.
C1_PresenceSurvivesSiblingDisconnect ==
  /\ \A u \in Users : (Quiescent /\ Registered(u) # {}) => isOnline[u]
  /\ \A e \in emitted :
       (e.kind = "userOnlineStatusChanged" /\ ~e.flag) => Registered(e.user) = {}

\* C2: under interleaving of the connect and disconnect handlers, the Store is
\* never written offline for a user who still has a registered connection, and
\* once every handler has finished isOnline(U) holds exactly when U has a
\* registered connection.
C2_PresenceUnderInterleaving ==
  /\ (log.action = "disconnect" /\ log.outcome = "userUpdate")
       => Registered(Principal[log.sock]) = {}
  /\ \A u \in Users : Quiescent => (isOnline[u] <=> Registered(u) # {})

\* ------------------------------------------------------------------ room claims

Live(s) == conn[s] = "open"

\* C3: a live connection is subscribed to room R only while its user is a
\* participant of conversation R in the Store.
C3_SubscribedOnlyIfParticipant ==
  \A s \in Sockets : \A c \in rooms[s] :
    (Live(s) /\ Has(socketToUser, s)) => IsParticipant(c, socketToUser[s])

\* C4: a joinConversation whose membership check finds the user not to be a
\* participant has no effect: the adapter's rooms and userRooms stay as they are,
\* nothing but one error event is emitted, and it goes to the caller.
C4_JoinRejectedForNonParticipant ==
  [][\A t \in TaskIds :
       (At(t, "join", "findOne") /\ tasks'[t] = Idle
          /\ ~IsParticipant(tasks[t].conv, tasks[t].user))
       => /\ rooms' = rooms
          /\ userRooms' = userRooms
          /\ emitted' = {ErrorEv(tasks[t].sock, tasks[t].conv)}]_vars

\* C4 witness: a join by a non-participant has just been answered with an error.
C4_Witness ==
  /\ log.action = "join" /\ log.outcome = "error"
  /\ Live(log.sock)
  /\ log.conv \in DOMAIN conversations
  /\ ~IsParticipant(log.conv, Principal[log.sock])

RoomEvents == {"newMessage", "userOnlineStatusChanged"}

\* C5: a room event goes exactly to the connections subscribed to the room when it
\* is emitted, and a connection that has just completed leaveConversation{R} is
\* no longer subscribed to R, so that no later broadcast to R reaches it.
C5_FanOutToCurrentSubscribers ==
  \A e \in emitted :
    /\ e.kind \in RoomEvents => e.to = {s \in Sockets : Live(s) /\ e.conv \in rooms[s]}
    /\ e.kind = "conversationLeft" => \A s \in e.to : e.conv \notin rooms[s]

\* C5 witness: a newMessage is emitted to a room that one live connection is in and
\* another live connection of a participant has left.
C5_Witness ==
  \E e \in emitted :
    /\ e.kind = "newMessage"
    /\ e.to # {}
    /\ \E s \in Sockets \ e.to :
         Live(s) /\ Has(socketToUser, s) /\ IsParticipant(e.conv, socketToUser[s])

\* ------------------------------------------------------------------ message claims

\* the live connections of the participants of a conversation
LiveOfParticipants(c) ==
  {s \in DOMAIN socketToUser : Live(s) /\ IsParticipant(c, socketToUser[s])}

\* C6: a sendMessage to a recipient that had to create the conversation persists
\* one message of the sender in it, and newMessage reaches the live connections
\* of both participants, messageSent the sender.
C6_FirstMessageReachesBothParticipants ==
  \A e \in emitted :
    (e.kind = "newMessage" /\ e.flag)
    => /\ e.msgs \subseteq DOMAIN messages
       /\ \A m \in e.msgs : messages[m].authorId = e.user /\ messages[m].conversationId = e.conv
       /\ LiveOfParticipants(e.conv) \subseteq e.to
       /\ \E d \in emitted : d.kind = "messageSent" /\ d.msgs = e.msgs

\* C7: a message is created in a conversation of which its author is a participant.
C7_AuthorParticipatesAtCreation ==
  log.outcome = "messageCreated"
  => IsParticipant(log.conv, messages[log.msg].authorId)

\* C8: newMessage and messageSent are emitted only with the message stored and the
\* conversation's last-message pointer set to it, messagesRead only with the
\* receipts stored; a sendMessage or markAsRead that ends in an error emits the
\* error event to its caller and nothing else.
C8_FanOutAfterCommit ==
  /\ \A e \in emitted :
       /\ e.kind \in {"newMessage", "messageSent"}
            => \A m \in e.msgs :
                 /\ m \in DOMAIN messages
                 /\ e.conv \in DOMAIN conversations
                 /\ conversations[e.conv].lastMessageId = m
       /\ e.kind = "messagesRead" => \A m \in e.msgs : receipts[<<m, e.user>>] >= 1
  /\ (log.action \in {"send", "mark"} /\ log.outcome = "error")
       => emitted = {ErrorEv(log.sock, log.conv)}

\* C8 witness: a sendMessage has failed at a Store call after its message was stored.
C8_Witness ==
  log.action = "send" /\ log.outcome = "error" /\ log.msg # NoMsg

\* C9: a sendMessage that reports an error has left nothing in the Store: neither a
\* message nor a conversation it created.
C9_FailedSendLeavesStoreUnchanged ==
  (log.action = "send" /\ log.outcome = "error")
  => (log.msg = NoMsg /\ ~log.created)

\* C10: there is at most one receipt per (message, user); a markAsRead that no Store
\* failure hits ends without error, and the messages it announces as read have
\* exactly one receipt of the user, however the calls overlap.
C10_ReadReceiptsIdempotent ==
  /\ \A k \in DOMAIN receipts : receipts[k] <= 1
  /\ log.action = "mark" => log.outcome # "error"
  /\ \A e \in emitted :
       e.kind = "messagesRead" => \A m \in e.msgs : receipts[<<m, e.user>>] = 1

\* C10 witness: a markAsRead has stored its receipts and announced them while an
\* overlapping markAsRead of the same user still holds the same messages as
\* unread and is about to insert them again.
C10_Witness ==
  /\ log.action = "mark" /\ log.outcome = "done"
  /\ \E e \in emitted :
       /\ e.kind = "messagesRead" /\ e.msgs # {}
       /\ \E t \in TaskIds :
            /\ At(t, "mark", "createMany")
            /\ tasks[t].user = e.user
            /\ tasks[t].ids \cap e.msgs # {}

\* ------------------------------------------------------------------ read-receipt claims

\* C11: markAsRead{C} by U selects exactly the messages of C by another author
\* that have no receipt of U, creates one receipt of U for each of them and
\* touches no other receipt (none for U's own messages, none for the messages of
\* another conversation), and its messagesRead event lists exactly the selected ids.
C11_ReceiptsForExactlyTheUnread ==
  [][\A t \in TaskIds :
       LET c == tasks[t].conv
           u == tasks[t].user
           unread == {m \in DOMAIN messages :
                        /\ messages[m].conversationId = c
                        /\ messages[m].authorId # u
                        /\ receipts[<<m, u>>] = 0}
       IN /\ (At(t, "mark", "findUnread") /\ tasks'[t].pc = "createMany")
               => (tasks'[t].ids = unread /\ receipts' = receipts)
          /\ (At(t, "mark", "findUnread") /\ tasks'[t] = Idle)
               => /\ unread = {}
                  /\ receipts' = receipts
                  /\ \A e \in emitted' : e.kind = "messagesRead" => e.msgs = {}
          /\ (At(t, "mark", "createMany") /\ tasks'[t] = Idle)
               => /\ \A m \in tasks[t].ids :
                       /\ messages[m].conversationId = c
                       /\ messages[m].authorId # u
                  /\ \A k \in DOMAIN receipts :
                       receipts'[k] = IF k[1] \in tasks[t].ids /\ k[2] = u /\ receipts[k] = 0
                                      THEN 1 ELSE receipts[k]
                  /\ \E e \in emitted' :
                       /\ e.kind = "messagesRead" /\ e.conv = c /\ e.user = u
                       /\ e.msgs = tasks[t].ids]_vars

\* C11 witness: a markAsRead has announced receipts for the messages of the other
\* author while a message of the reader's own in the same conversation has none.
C11_Witness ==
  /\ log.action = "mark" /\ log.outcome = "done"
  /\ \E e \in emitted :
       /\ e.kind = "messagesRead" /\ e.msgs # {}
       /\ \A m \in e.msgs : receipts[<<m, e.user>>] = 1
       /\ \E own \in DOMAIN messages :
            /\ messages[own].conversationId = e.conv
            /\ messages[own].authorId = e.user
            /\ receipts[<<own, e.user>>] = 0

\* C12: the messagesRead of U's markAsRead{C} goes to the live subscribers of room C
\* that are connections of other users, and to no connection of U.
C12_ReadEventNeverToReader ==
  \A e \in emitted :
    e.kind = "messagesRead"
    => e.to = {s \in Sockets : Live(s) /\ e.conv \in rooms[s] /\ Principal[s] # e.user}

\* ------------------------------------------------------------------ conversation claims

\* the conversations whose participants are exactly the two users
ConversationsOfPair(a, b) ==
  {c \in DOMAIN conversations : conversations[c].participants = {a, b}}

\* C13: with the handlers run one after another, a startConversation between A and
\* B (whoever of the two calls) that finds a conversation of exactly the two
\* returns its id and creates none; it creates one only when there is none, so
\* that a second call returns the id of the first.
C13_StartConversationDeduplicates ==
  \A e \in emitted :
    e.kind = "conversationStarted"
    => LET ofPair == ConversationsOfPair(Principal[log.sock], e.user)
       IN /\ ofPair \subseteq {e.conv}
          /\ e.flag => ofPair = {e.conv}
          /\ e.flag = log.created

\* C13 witness: a startConversation has returned the one conversation of the pair
\* without creating any, and the connection of the other user is in its room.
C13_Witness ==
  \E e \in emitted :
    /\ e.kind = "conversationStarted" /\ ~e.flag
    /\ ConversationsOfPair(Principal[log.sock], e.user) = {e.conv}
    /\ DOMAIN conversations = {e.conv}
    /\ \E s \in Sockets : Live(s) /\ Principal[s] = e.user /\ e.conv \in rooms[s]

\* C14: the Store never holds two conversations whose participants are exactly the
\* same two users.
C14_AtMostOneConversationPerPair ==
  \A a, b \in Users : Cardinality(ConversationsOfPair(a, b)) <= 1

\* ------------------------------------------------------------------ payload claims

\* C15: a sendMessage that is handed to MessagesService.create carries exactly one
\* of conversationId and recipientId: a payload with both, like one with neither,
\* is rejected before anything is looked up, stored or emitted.
C15_ExactlyOneTarget ==
  \A t \in TaskIds :
    (tasks[t].kind = "send" /\ tasks[t].pc \in {"findOne", "findBetween"})
    => ((tasks[t].conv = NoConv) # (tasks[t].rcpt = NoUser))

\* the content is missing or consists of whitespace only
Blank(payload) ==
  ~Has(payload, "content") \/ \A i \in 1..Len(payload.content) : payload.content[i] = " "

BlankPayloads == {payload \in Payloads : Blank(payload)}

\* C16: a sendMessage whose content is missing, empty or whitespace only changes
\* nothing in the Store, starts no Store call, leaves the connection open and
\* emits one error event, to the caller; the content of every stored message is
\* non-empty and starts and ends with a character that is not whitespace.
C16_BlankContentRejected ==
  /\ [](\A m \in DOMAIN messages :
         /\ messages[m].content # <<>>
         /\ Head(messages[m].content) # " "
         /\ messages[m].content[Len(messages[m].content)] # " ")
  /\ [][\A s \in {x \in Sockets : conn[x] = "open"}, payload \in BlankPayloads :
         HandleSendMessage(s, payload)
         => /\ store' = store /\ registry' = registry /\ rooms' = rooms
            /\ tasks' = tasks
            /\ conn'[s] = "open"
            /\ emitted' = {ErrorEv(s, payload.conversationId)}]_vars

\* C16 witness: a sendMessage to a conversation of the caller has been refused for
\* its content, and a message sent with padded content is stored trimmed.
C16_Witness ==
  /\ log.action = "send" /\ log.outcome = "invalid"
  /\ Live(log.sock)
  /\ IsParticipant(log.conv, Principal[log.sock])
  /\ emitted = {ErrorEv(log.sock, log.conv)}
  /\ \E m \in DOMAIN messages : Len(messages[m].content) > 1

\* ------------------------------------------------------------------ lifecycle claims

PresenceKinds == {"userOnlineStatusChanged", "connected"}

\* C17: a connection whose token is missing, forged or expired never gets a session:
\* it is never in socketToUser, in no room, no handler runs for it, connected is
\* never emitted to it, and the one step that changes it closes it and leaves the
\* Store, the registries and the rooms as they are, without a presence event.
C17_NoSessionWithoutPrincipal ==
  /\ [](\A s \in Sockets :
         Handshake[s].token # "valid"
         => /\ ~Has(socketToUser, s)
            /\ rooms[s] = {}
            /\ conn[s] \in {"new", "closed"}
            /\ \A t \in TaskIds : tasks[t].sock # s
            /\ \A e \in emitted : s \in e.to => e.kind # "connected")
  /\ [][\A s \in Sockets :
         (Handshake[s].token # "valid" /\ conn'[s] # conn[s])
         => /\ conn'[s] = "closed"
            /\ store' = store /\ registry' = registry /\ rooms' = rooms
            /\ tasks' = tasks
            /\ \A e \in emitted' : e.kind \notin PresenceKinds]_vars

\* C17 witness: the three connections without a valid token have been refused
\* while a connection with a valid token has its session.
C17_Witness ==
  /\ \A s \in Sockets : Handshake[s].token # "valid" => conn[s] = "closed"
  /\ \E s \in Sockets : Handshake[s].token # "valid"
  /\ \E s \in DOMAIN socketToUser : Live(s)

C19_TeardownOnce ==
  [][\A s \in Sockets :
       /\ (conn[s] = "closed" /\ log' = Log("disconnect", s, "again", NoConv, NoMsg, FALSE))
            => /\ store' = store /\ registry' = registry /\ rooms' = rooms
               /\ tasks' = tasks
               /\ emitted' = {}
       /\ (\E t \in TaskIds :
              /\ tasks'[t].kind = "disconnect" /\ tasks'[t].sock = s
              /\ tasks[t].kind # "disconnect")
            => conn[s] = "open"]_vars

\* C19 witness: handleDisconnect has run again for a closed connection whose user
\* has another connection registered and rooms tracked.
C19_Witness ==
  /\ log.action = "disconnect" /\ log.outcome = "again"
  /\ conn[log.sock] = "closed"
  /\ Registered(Principal[log.sock]) # {}
  /\ Has(userRooms, Principal[log.sock])

\* C20: a user without a registered connection is in the typingUsers of no
\* conversation.
C20_NoTypingAfterDisconnect ==
  \A u \in Users :
    Registered(u) = {} => \A c \in DOMAIN typingUsers : u \notin typingUsers[c]

\* ------------------------------------------------------------------ delivery claims

\* u1's connection s1 has just been torn down while u2's connection s3 is
\* subscribed to the room of a conversation of both
OnlyConnectionGone ==
  /\ log = Log("disconnect", "s1", "begin", NoConv, NoMsg, FALSE)
  /\ Registered("u1") = {}
  /\ \E c \in rooms["s3"] : Live("s3") /\ IsParticipant(c, "u1") /\ IsParticipant(c, "u2")

\* userOnlineStatusChanged{userId: u1, isOnline: false} is delivered to s3
OfflineSeen ==
  \E e \in emitted :
    e.kind = "userOnlineStatusChanged" /\ e.user = "u1" /\ ~e.flag /\ "s3" \in e.to

\* C21: when u1's only connection disconnects while u2's connection is subscribed
\* to a room of a conversation of both, u2's connection eventually receives
\* userOnlineStatusChanged for u1 with isOnline false.
C21_OfflineEventuallySeen == OnlyConnectionGone ~> OfflineSeen

\* C21 witness: the offline event of u1 has reached s3 after s1's disconnect.
C21_Witness ==
  /\ OfflineSeen
  /\ log.action = "disconnect" /\ log.sock = "s1" /\ log.outcome = "done"
  /\ conn["s1"] = "closed"

\* the sends that have stored their message and not yet emitted newMessage
Unannounced(m) == \E t \in TaskIds : tasks[t].kind = "send" /\ tasks[t].msg = m

\* C22: when newMessage of a message is delivered to the subscribers of a room,
\* the newMessage of no message created later in the same conversation has been
\* emitted before: every later message of the conversation is still unannounced.
C22_RoomFifo ==
  \A e \in emitted :
    (e.kind = "newMessage" /\ e.to # {})
    => \A m \in e.msgs : \A later \in DOMAIN messages :
         (later > m /\ messages[later].conversationId = e.conv) => Unannounced(later)

ActionKinds == {"join", "send", "start", "mark"}

\* C23: at no time are two handlers of inbound actions of the same connection in
\* flight.
C23_OneActionPerConnection ==
  \A t1, t2 \in TaskIds :
    (t1 # t2 /\ tasks[t1].kind \in ActionKinds /\ tasks[t2].kind \in ActionKinds)
    => tasks[t1].sock # tasks[t2].sock

\* C24: an event to a room goes only to connections that are open and registered,
\* never to one whose teardown has run, and a sendMessage whose connection has
\* disconnected meanwhile still stores its message and announces it to the room.
C24_NoFanOutToDisconnected ==
  /\ \A e \in emitted :
       e.kind \in {"newMessage", "userOnlineStatusChanged", "messagesRead"}
       => \A s \in e.to : conn[s] = "open" /\ Has(socketToUser, s)
  /\ (log.action = "send" /\ log.outcome = "done")
       => /\ log.msg \in DOMAIN messages
          /\ \E e \in emitted : e.kind = "newMessage" /\ e.msgs = {log.msg}

\* C24 witness: a sendMessage of a connection that has disconnected meanwhile has
\* announced its message to the other connection, and to it alone.
C24_Witness ==
  /\ log.action = "send" /\ log.outcome = "done"
  /\ conn[log.sock] = "closed"
  /\ ~Has(socketToUser, log.sock)
  /\ \E e \in emitted :
       e.kind = "newMessage" /\ e.msgs = {log.msg} /\ e.to # {} /\ log.sock \notin e.to

\* ------------------------------------------------------------------ error handling claims

\* what the failing step of an action reports
FailedOutcomes == {"error", "invalid", "ignored"}
InboundActions == {"join", "leave", "send", "start", "mark", "startTyping", "stopTyping"}

C26_MarkByOutsiderRejected ==
  (log.action = "mark" /\ log.conv \in DOMAIN conversations
     /\ ~IsParticipant(log.conv, Principal[log.sock]))
    => /\ log.outcome = "error"
       /\ \A e \in emitted : e.kind # "messagesRead"
       /\ \A m \in DOMAIN messages :
            messages[m].conversationId = log.conv => receipts[<<m, Principal[log.sock]>>] = 0

\* C27: from the first step of handleDisconnect to its last, whether the presence
\* update and the conversation lookup fail or not, the connection is closed, it is
\* not in socketToUser, its user has no entry in userRooms, it is in no room, and
\* once the handler is done no handler of the connection is left.
C27_TeardownDespiteStoreFailure ==
  log.action = "disconnect"
    => /\ conn[log.sock] = "closed"
       /\ ~Has(socketToUser, log.sock)
       /\ ~Has(userRooms, Principal[log.sock])
       /\ rooms[log.sock] = {}
       /\ log.outcome = "done" => ~Busy(log.sock)

\* C27 witness: handleDisconnect is done for the user's only connection although the
\* presence update has failed: the Store still has the user online.
C27_Witness ==
  /\ log.action = "disconnect" /\ log.outcome = "done"
  /\ isOnline[Principal[log.sock]]
  /\ Registered(Principal[log.sock]) = {}
  /\ conn[log.sock] = "closed"

\* ------------------------------------------------------------------ room tracking claims

\* C28: a joinConversation for a room the connection is in already, and a
\* leaveConversation for a room the connection is not in, leave the room
\* membership and userRooms as they were.
C28_JoinAndLeaveIdempotent ==
  [][/\ (log'.action = "join" /\ log'.outcome = "done" /\ log'.conv \in rooms[log'.sock])
          => (rooms' = rooms /\ userRooms' = userRooms)
     /\ (log'.action = "leave" /\ log'.outcome = "done" /\ log'.conv \notin rooms[log'.sock])
          => (rooms' = rooms /\ userRooms' = userRooms)]_vars

\* the rooms the live connections of user u are in
RoomsOf(u) == UNION {rooms[s] : s \in {x \in Registered(u) : conn[x] = "open"}}

\* C29: whenever no handler is in flight, userRooms of a user is the union of the
\* rooms of the user's live connections.
C29_UserRoomsIsActualMembership ==
  Quiescent => \A u \in Users : Get(userRooms, u, {}) = RoomsOf(u)

\* C30: no conversationStarted is emitted for a recipient that is not a user, and a
\* startConversation for such a recipient is not reported as done.
C30_StartWithStrangerRejected ==
  \A e \in emitted : e.kind = "conversationStarted" => e.user \in Users

\* ------------------------------------------------------------------ session claims

\* C31: the handler of an inbound action invoked for a connection that has no entry
\* in socketToUser changes nothing in the Store, in the registry, in the rooms or in
\* the typing state, starts no Store call, and emits nothing to anyone but the
\* connection itself.
C31_NoSessionNoEffect ==
  [][(log'.action \in InboundActions /\ ~Has(socketToUser, log'.sock))
       => /\ store' = store
          /\ registry' = registry
          /\ rooms' = rooms
          /\ tasks' = tasks
          /\ \A e \in emitted' : e.to \subseteq {log'.sock}]_vars

\* C31 witness: a sendMessage handled for a torn-down connection has been refused
\* while the other user's connection is in a room and a user is typing there.
C31_Witness ==
  /\ log.action = "send" /\ log.outcome = "error"
  /\ conn[log.sock] = "closed" /\ ~Has(socketToUser, log.sock)
  /\ \E x \in Sockets : conn[x] = "open" /\ rooms[x] # {}
  /\ typingUsers # EmptyMap

\* ------------------------------------------------------------------ typing claims

\* the typing sets of the conversations other than c are as they were
OtherTypingUnchanged(c) ==
  \A k \in (DOMAIN typingUsers \cup DOMAIN typingUsers') \ {c} :
    Has(typingUsers, k) /\ Has(typingUsers', k) /\ typingUsers'[k] = typingUsers[k]

\* C32: a startTyping that is carried out adds the acting user to the typing set
\* of its conversation, a stopTyping removes the user from it; both leave every
\* other typing set, the Store, socketToUser, userRooms, the rooms and the
\* connections as they were, start no Store call, and what they emit (userTyping,
\* userStoppedTyping) does not go to the calling connection.
C32_TypingChangesTypingStateOnly ==
  [][(log'.action \in {"startTyping", "stopTyping"} /\ log'.outcome = "done")
       => /\ Has(socketToUser, log'.sock)
          /\ IF log'.action = "startTyping"
             THEN Get(typingUsers', log'.conv, {}) =
                    Get(typingUsers, log'.conv, {}) \cup {socketToUser[log'.sock]}
             ELSE Get(typingUsers', log'.conv, {}) =
                    Get(typingUsers, log'.conv, {}) \ {socketToUser[log'.sock]}
          /\ OtherTypingUnchanged(log'.conv)
          /\ store' = store /\ socketToUser' = socketToUser /\ userRooms' = userRooms
          /\ rooms' = rooms /\ conn' = conn /\ tasks' = tasks
          /\ \A e \in emitted' :
               /\ e.kind = (IF log'.action = "startTyping" THEN "userTyping"
                                                            ELSE "userStoppedTyping")
               /\ e.conv = log'.conv
               /\ log'.sock \notin e.to]_vars

\* C32 witness: a connection that is in the room of the conversation has stopped
\* typing there after another user started, and the event went to the other
\* connection in the room.
C32_Witness ==
  /\ log.action = "stopTyping" /\ log.outcome = "done"
  /\ log.conv \in rooms[log.sock]
  /\ Has(typingUsers, log.conv) /\ typingUsers[log.conv] # {}
  /\ \E e \in emitted : e.kind = "userStoppedTyping" /\ e.to # {}

\* ------------------------------------------------------------------ conversation claims

C34_ConflictOnlyForSameParticipants ==
  [][log'.action = "conversationsCreate"
       => \A r \in log'.result :
            LET requested == {r.creatorId} \cup r.participantIds
            IN /\ (log'.outcome = "conflict")
                    <=> (r.participantIds \subseteq Users
                         /\ \E c \in DOMAIN conversations :
                              conversations[c].participants = requested)
               /\ log'.outcome \in {"conflict", "notFound"} => store' = store
               /\ log'.outcome = "done"
                    => /\ DOMAIN conversations' = DOMAIN conversations \cup {log'.conv}
                       /\ log'.conv \notin DOMAIN conversations
                       /\ conversations'[log'.conv].participants = requested]_vars

\* C35: the conversation that findOrCreateConversationBetweenUsers returns to
\* handleStartConversation has exactly the caller and the recipient as participants.
C35_FindOrCreateReturnsThePair ==
  \A e \in emitted : e.kind = "conversationStarted"
    => \A s \in e.to :
         /\ e.conv \in DOMAIN conversations
         /\ conversations[e.conv].participants = {Principal[s], e.user}

\* ------------------------------------------------------------------ teardown claims

\* the user has a connection that is open
HasLiveConnection(u) == \E s \in Sockets : conn[s] = "open" /\ Principal[s] = u

\* C36: when every handler has finished, a closed connection has no entry in
\* socketToUser, and a user without an open connection has no entry in userRooms
\* and is offline in the Store.
C36_NothingLeftAfterDisconnect ==
  Quiescent
    => /\ \A s \in Sockets : conn[s] = "closed" => ~Has(socketToUser, s)
       /\ \A u \in Users :
            ~HasLiveConnection(u) => (~Has(userRooms, u) /\ ~isOnline[u])

\* C37: the step that emits userTyping or userStoppedTyping for a conversation
\* names a user who takes part in it, and the step that adds a user to the typing
\* set of a conversation adds a participant of it.
C37_TypingOnlyByParticipants ==
  [][/\ \A e \in emitted' :
          (e.kind \in {"userTyping", "userStoppedTyping"} /\ log'.action \in {"startTyping", "stopTyping"})
            => (e.conv \in DOMAIN conversations /\ e.user \in conversations[e.conv].participants)
     /\ \A c \in DOMAIN typingUsers' :
          \A u \in typingUsers'[c] \ Get(typingUsers, c, {}) :
            c \in DOMAIN conversations /\ u \in conversations[c].participants]_vars

NoSendInFlight == \A t \in TaskIds : tasks[t].kind # "send"

MessagesOf(c) == {m \in DOMAIN messages : messages[m].conversationId = c}

\* the message of the conversation created last (message ids are given in the
\* order of creation)
NewestOf(c) == CHOOSE m \in MessagesOf(c) : \A x \in MessagesOf(c) : x <= m

\* C38: when no sendMessage is in flight, the last-message pointer of every
\* conversation that has messages is the message of it that was created last.
C38_LastMessageIsNewest ==
  NoSendInFlight
    => \A c \in DOMAIN conversations :
         MessagesOf(c) # {} => conversations[c].lastMessageId = NewestOf(c)

\* C39: the messagesRead event of a markAsRead lists exactly the messages for
\* which the step that emits it created a receipt of the reader.
C39_ReadEventListsCreatedReceipts ==
  [][\A e \in emitted' :
       (e.kind = "messagesRead" /\ log'.action = "mark")
         => e.msgs = {m \in MsgIds : receipts'[<<m, e.user>>] > receipts[<<m, e.user>>]}]_vars

\* C40: a step of MessagesService.update or remove changes the Store only for
\* the author of the message and then ends in success; for a message that
\* exists and has another author the call ends with Forbidden, for a message
\* that does not exist at findUnique with NotFound, and a call that does not end
\* in success leaves the Store as it was.
C40_OnlyAuthorUpdatesOrRemoves ==
  [][\A t \in TaskIds :
       (tasks[t].kind \in {"messagesUpdate", "messagesRemove"} /\ tasks'[t] # tasks[t])
         => LET id == tasks[t].msg
                u == tasks[t].user
                ended == tasks'[t].kind = "idle"
            IN /\ (ended /\ log'.outcome = "done")
                    => (id \in DOMAIN messages /\ messages[id].authorId = u)
               /\ (id \in DOMAIN messages /\ messages[id].authorId # u)
                    => (ended /\ log'.outcome = "forbidden")
               /\ (tasks[t].pc = "findUnique" /\ id \notin DOMAIN messages)
                    => (ended /\ log'.outcome = "notFound")
               /\ ~(ended /\ log'.outcome = "done") => store' = store]_vars

C40_Witness ==
  /\ log.action \in {"messagesUpdate", "messagesRemove"}
  /\ log.outcome = "forbidden"
  /\ log.msg \in DOMAIN messages
  /\ \E k \in DOMAIN receipts : k[1] = log.msg /\ receipts[k] > 0

====
